---- MODULE Spec2Model ----
(***************************************************************************)
(* HydroRun storage layer: the IStorage contract and its two               *)
(* implementations, MemStorage (maps and id counters) and DatabaseStorage  *)
(* (relational tables behind drizzle), modelled from src/schema.ts.        *)
(*                                                                         *)
(* A scripted operation is applied to both stores in the same step, so     *)
(* that their results can be compared.  Optional values are encoded as      *)
(* tuples: <<>> is null/undefined, <<v>> is the value v.  Timestamps are    *)
(* milliseconds on one server clock, days have a fixed length (no DST) and  *)
(* local time is UTC.                                                      *)
(*                                                                         *)
(* The handlers of src/routes.ts run against one of the two stores; a      *)
(* handler that awaits twice and can be overtaken in between is two steps. *)
(***************************************************************************)
EXTENDS Integers, Sequences, FiniteSets, TLC

VARIABLES
    \* MemStorage: one map per entity, one counter per entity
    users, waterIntakes, activities, routes, posts, likes, comments,
    userIdCounter, waterIntakeIdCounter, activityIdCounter, routeIdCounter,
    postIdCounter, likeIdCounter, commentIdCounter,
    \* DatabaseStorage: one table (a set of rows) per entity, the serial sequences
    dbUsers, dbWaterIntake, dbActivities, dbRoutes, dbPosts, dbLikes, dbComments,
    dbSeq,
    \* the server clock (new Date(), now())
    now,
    \* the last scripted operation and what each store answered
    op, memRet, dbRet,
    \* history: the ids MemStorage has issued, per entity, in issuance order
    issued,
    \* concurrent calls (DatabaseStorage.addLike, POST /api/register): the position
    \* of each and its local variables
    pc, seen,
    \* the last HTTP response a handler of routes.ts sent
    res

memVars == <<users, waterIntakes, activities, routes, posts, likes, comments,
             userIdCounter, waterIntakeIdCounter, activityIdCounter,
             routeIdCounter, postIdCounter, likeIdCounter, commentIdCounter>>
dbVars == <<dbUsers, dbWaterIntake, dbActivities, dbRoutes, dbPosts, dbLikes,
            dbComments, dbSeq>>
callVars == <<pc, seen, res>>
vars == <<memVars, dbVars, now, op, memRet, dbRet, issued, callVars>>

mU == <<users, userIdCounter>>
mW == <<waterIntakes, waterIntakeIdCounter>>
mA == <<activities, activityIdCounter>>
mR == <<routes, routeIdCounter>>
mP == <<posts, postIdCounter>>
mL == <<likes, likeIdCounter>>
mC == <<comments, commentIdCounter>>

\* ---------------------------------------------------------------- bounds
\* createUser calls of a script (the seed user comes on top of these)
MaxUsers == 2
\* Like rows ever inserted into one store
MaxLikes == 3
\* clock ticks
MaxClock == 2
\* the ids a script about likes names: DatabaseStorage holds user 1 and both posts
\* once they are created, MemStorage holds user 2 as well
LikeUserIds == {1, 2}
LikePostIds == {1, 2}
Calls == {"c1", "c2"}

\* ---------------------------------------------------------------- values
Null == <<>>
Some(v) == <<v>>

Ok(v) == [kind |-> "ok", val |-> v]
Absent == [kind |-> "absent", val |-> <<>>]
Void == [kind |-> "void", val |-> <<>>]
Failed(why) == [kind |-> "error", val |-> why]

Min(S) == CHOOSE x \in S : \A y \in S : x <= y

RECURSIVE Ascending(_)
Ascending(S) == IF S = {} THEN <<>>
                ELSE <<Min(S)>> \o Ascending(S \ {Min(S)})

\* Array.from(map.values()): a Map iterates in insertion order, and every key
\* is inserted once, from an increasing counter
Values(map) == [i \in 1..Cardinality(DOMAIN map) |-> map[Ascending(DOMAIN map)[i]]]

Range(s) == {s[i] : i \in DOMAIN s}

\* Array.prototype.find, given the indices of the elements that pass the test
Find(s, hits) == IF hits = {} THEN Absent ELSE Ok(s[Min(hits)])

\* a || d on a string-valued optional: null, undefined and "" are falsy
OrStr(a, d) == IF a = Null \/ a = Some("") THEN d ELSE a
\* a || d on a number-valued optional: null, undefined and 0 are falsy
OrNum(a, d) == IF a = Null \/ a = Some(0) THEN d ELSE a
\* a ?? d
Coalesce(a, d) == IF a = Null THEN d ELSE a

\* { ...a, ...b }
Spread(a, b) == [f \in DOMAIN a \cup DOMAIN b |-> IF f \in DOMAIN b THEN b[f] ELSE a[f]]

DefaultWaterGoal == 2000

\* ---------------------------------------------------------------- MemStorage: users
SeedUser == [username |-> "testuser", password |-> "password",
             email |-> "test@example.com", profilePicture |-> Some(""),
             dailyWaterGoal |-> Some(2000)]

MemNewUser(insertUser, id) ==
    [id |-> id, username |-> insertUser.username, password |-> insertUser.password,
     email |-> insertUser.email,
     profilePicture |-> OrStr(insertUser.profilePicture, Null),
     dailyWaterGoal |-> OrNum(insertUser.dailyWaterGoal, Some(DefaultWaterGoal))]

MemGetUser(id) == IF id \in DOMAIN users THEN Ok(users[id]) ELSE Absent

MemGetUserByUsername(username) ==
    LET all == Values(users)
    IN Find(all, {i \in DOMAIN all : all[i].username = username})

MemCreateUser(insertUser) ==
    LET id == userIdCounter
    IN /\ userIdCounter' = userIdCounter + 1
       /\ users' = (id :> MemNewUser(insertUser, id)) @@ users
       /\ memRet' = Ok(MemNewUser(insertUser, id))
       /\ issued' = [issued EXCEPT !.user = Append(@, id)]

\* mutant: the defaulting of createUser, copied into the update
MemUpdateUserDefaultsGoal(id, data) ==
    /\ IF MemGetUser(id).kind = "absent"
       THEN /\ memRet' = Absent
            /\ users' = users
       ELSE LET updatedUser ==
                    Spread(Spread(users[id], data),
                           [dailyWaterGoal |->
                               IF "dailyWaterGoal" \in DOMAIN data
                               THEN OrNum(data.dailyWaterGoal, Some(DefaultWaterGoal))
                               ELSE Some(DefaultWaterGoal)])
            IN /\ users' = [users EXCEPT ![id] = updatedUser]
               /\ memRet' = Ok(updatedUser)
    /\ UNCHANGED <<userIdCounter, issued>>

MemUpdateUser(id, data) ==
    /\ IF MemGetUser(id).kind = "absent"
       THEN /\ memRet' = Absent
            /\ users' = users
       ELSE /\ users' = [users EXCEPT ![id] = Spread(users[id], data)]
            /\ memRet' = Ok(Spread(users[id], data))
    /\ UNCHANGED <<userIdCounter, issued>>

\* ---------------------------------------------------------------- DatabaseStorage: users
Ids(table) == {row.id : row \in table}

\* const [row] = await db.select()...: the first row of the result, or undefined
First(rows) == IF rows = {} THEN {Absent} ELSE {Ok(row) : row \in rows}

\* mutant: the schema without .unique() on users.username
OnlyPrimaryKeyHolds(table) ==
    \A r1, r2 \in table : r1.id = r2.id => r1 = r2

\* users.username is unique, users.id is the primary key
UsersConstraintsHold(table) ==
    \A r1, r2 \in table :
        (r1.username = r2.username \/ r1.id = r2.id) => r1 = r2

UserColumns == {"id", "username", "password", "email", "profilePicture", "dailyWaterGoal"}

DbNewUser(user, id) ==
    [id |-> id, username |-> user.username, password |-> user.password,
     email |-> user.email,
     profilePicture |-> OrStr(user.profilePicture, Null),
     dailyWaterGoal |-> OrNum(user.dailyWaterGoal, Some(DefaultWaterGoal))]

DbGetUser(id) == First({row \in dbUsers : row.id = id})

DbGetUserByUsername(username) == First({row \in dbUsers : row.username = username})

\* a serial column draws its value before the row is checked: a refused insert
\* still consumes the sequence value
DbCreateUser(user) ==
    LET id == dbSeq.user + 1
        row == DbNewUser(user, id)
    IN /\ dbSeq' = [dbSeq EXCEPT !.user = id]
       /\ IF UsersConstraintsHold(dbUsers \cup {row}) /\ row.id \notin Ids(dbUsers)
          THEN /\ dbUsers' = dbUsers \cup {row}
               /\ dbRet' = Ok(row)
          ELSE /\ dbUsers' = dbUsers
               /\ dbRet' = Failed("unique_violation")

DbUpdateUser(id, data) ==
    LET hit == {row \in dbUsers : row.id = id}
        Set(row) == Spread(row, [f \in DOMAIN data \cap UserColumns |-> data[f]])
        after == (dbUsers \ hit) \cup {Set(row) : row \in hit}
    IN /\ dbSeq' = dbSeq
       /\ IF hit = {}
          THEN /\ dbUsers' = dbUsers
               /\ dbRet' = Absent
          ELSE IF UsersConstraintsHold(after) /\ Cardinality(after) = Cardinality(dbUsers)
          THEN /\ dbUsers' = after
               /\ dbRet' \in First({Set(row) : row \in hit})
          ELSE /\ dbUsers' = dbUsers
               /\ dbRet' = Failed("unique_violation")

\* ---------------------------------------------------------------- MemStorage: likes
SamePair(l, userId, postId) == l.userId = userId /\ l.postId = postId

\* mutant: the check compares the post id with the user id
MemExistingLikeWrongPost(userId, postId) ==
    LET all == Values(likes)
    IN Find(all, {i \in DOMAIN all : all[i].userId = userId /\ all[i].postId = userId})

MemExistingLike(userId, postId) ==
    LET all == Values(likes)
    IN Find(all, {i \in DOMAIN all : SamePair(all[i], userId, postId)})

\* mutant: the id is taken from the size of the map
MemNewLikeIdFromSize == Cardinality(DOMAIN likes) + 1

MemNewLikeId == likeIdCounter

MemAddLike(like) ==
    LET existingLike == MemExistingLike(like.userId, like.postId)
        id == MemNewLikeId
        newLike == [id |-> id, userId |-> like.userId, postId |-> like.postId]
    IN IF existingLike.kind = "ok"
       THEN /\ memRet' = existingLike
            /\ UNCHANGED <<likes, likeIdCounter, issued>>
       ELSE /\ likeIdCounter' = likeIdCounter + 1
            /\ likes' = (id :> newLike) @@ likes
            /\ memRet' = Ok(newLike)
            /\ issued' = [issued EXCEPT !.like = Append(@, id)]

\* mutant: every like of the post is removed
MemRemoveLikeOfPost(userId, postId) ==
    /\ likes' = [k \in {j \in DOMAIN likes : likes[j].postId # postId} |-> likes[k]]
    /\ memRet' = Void
    /\ UNCHANGED <<likeIdCounter, issued>>

MemRemoveLike(userId, postId) ==
    LET likeToRemove == MemExistingLike(userId, postId)
    IN /\ IF likeToRemove.kind = "ok"
          THEN likes' = [k \in DOMAIN likes \ {likeToRemove.val.id} |-> likes[k]]
          ELSE likes' = likes
       /\ memRet' = Void
       /\ UNCHANGED <<likeIdCounter, issued>>

MemGetLikesByPostId(postId) ==
    LET Test(l) == l.postId = postId
    IN Ok(SelectSeq(Values(likes), Test))

\* ---------------------------------------------------------------- DatabaseStorage: likes
\* the rows of a SELECT without ORDER BY, in any order
RECURSIVE Orderings(_)
Orderings(S) ==
    IF S = {} THEN {<<>>}
    ELSE UNION {{<<r>> \o t : t \in Orderings(S \ {r})} : r \in S}

\* likes.user_id references users.id, likes.post_id references posts.id
LikeReferencesHold(like) ==
    like.userId \in Ids(dbUsers) /\ like.postId \in Ids(dbPosts)

DbSelectLikes(like) == {row \in dbLikes : SamePair(row, like.userId, like.postId)}

DbNewLike(like) == [id |-> dbSeq.like + 1, userId |-> like.userId, postId |-> like.postId]

\* what addLike returns, given the rows its SELECT returned
DbAddLikeResult(existingLikes, like) ==
    IF Len(existingLikes) > 0 THEN Ok(existingLikes[1])
    ELSE IF LikeReferencesHold(like) /\ DbNewLike(like).id \notin Ids(dbLikes)
    THEN Ok(DbNewLike(like))
    ELSE Failed("foreign_key_violation")

\* mutant: the insert is skipped when a row of the pair exists by now
DbAddLikeInsertUnlessPresent(existingLikes, like) ==
    IF Len(existingLikes) > 0 \/ DbSelectLikes(like) # {}
    THEN UNCHANGED <<dbLikes, dbSeq>>
    ELSE /\ dbSeq' = [dbSeq EXCEPT !.like = DbNewLike(like).id]
         /\ dbLikes' = IF DbAddLikeResult(existingLikes, like).kind = "ok"
                       THEN dbLikes \cup {DbNewLike(like)}
                       ELSE dbLikes

\* the second half of addLike, given the rows its SELECT returned: the insert
\* happens whenever that SELECT returned no row
DbAddLikeInsert(existingLikes, like) ==
    IF Len(existingLikes) > 0
    THEN UNCHANGED <<dbLikes, dbSeq>>
    ELSE /\ dbSeq' = [dbSeq EXCEPT !.like = DbNewLike(like).id]
         /\ dbLikes' = IF DbAddLikeResult(existingLikes, like).kind = "ok"
                       THEN dbLikes \cup {DbNewLike(like)}
                       ELSE dbLikes

\* one addLike call run to its end with no other call in between
DbAddLike(like) ==
    \E existingLikes \in Orderings(DbSelectLikes(like)) :
        /\ DbAddLikeInsert(existingLikes, like)
        /\ dbRet' = DbAddLikeResult(existingLikes, like)

\* concurrent addLike calls: each awaits its SELECT, then its INSERT, and other
\* calls run in between
AddLikeSelect(c, like) ==
    /\ pc[c] = "idle"
    /\ \E existingLikes \in Orderings(DbSelectLikes(like)) :
          seen' = [seen EXCEPT ![c] = [like |-> like, existingLikes |-> existingLikes,
                                       ret |-> Void]]
    /\ pc' = [pc EXCEPT ![c] = "selected"]
    /\ UNCHANGED <<memVars, dbVars, now, op, memRet, dbRet, issued, res>>

AddLikeReturn(c) ==
    /\ pc[c] = "selected"
    /\ DbAddLikeInsert(seen[c].existingLikes, seen[c].like)
    /\ seen' = [seen EXCEPT ![c].ret = DbAddLikeResult(seen[c].existingLikes, seen[c].like)]
    /\ pc' = [pc EXCEPT ![c] = "done"]
    /\ UNCHANGED <<memVars, now, op, memRet, dbRet, issued, res>>
    /\ UNCHANGED <<dbUsers, dbWaterIntake, dbActivities, dbRoutes, dbPosts, dbComments>>

AddLikeAgain(c) ==
    /\ pc[c] = "done"
    /\ pc' = [pc EXCEPT ![c] = "idle"]
    /\ seen' = [seen EXCEPT ![c] = <<>>]
    /\ UNCHANGED <<memVars, dbVars, now, op, memRet, dbRet, issued, res>>

DbRemoveLike(userId, postId) ==
    /\ dbLikes' = {row \in dbLikes : ~SamePair(row, userId, postId)}
    /\ dbRet' = Void
    /\ dbSeq' = dbSeq

DbGetLikesByPostId(postId) ==
    {Ok(s) : s \in Orderings({row \in dbLikes : row.postId = postId})}

\* ---------------------------------------------------------------- posts
MemNewPost(post, id) ==
    [id |-> id, userId |-> post.userId, content |-> post.content,
     timestamp |-> now,
     activityId |-> OrNum(post.activityId, Null),
     imagePath |-> OrStr(post.imagePath, Null)]

MemCreatePost(post) ==
    LET id == postIdCounter
    IN /\ postIdCounter' = postIdCounter + 1
       /\ posts' = (id :> MemNewPost(post, id)) @@ posts
       /\ memRet' = Ok(MemNewPost(post, id))
       /\ issued' = [issued EXCEPT !.post = Append(@, id)]

\* posts.user_id references users.id, posts.activity_id references activities.id
PostReferencesHold(row) ==
    /\ row.userId \in Ids(dbUsers)
    /\ row.activityId = Null \/ row.activityId[1] \in Ids(dbActivities)

DbNewPost(post, id) ==
    [id |-> id, userId |-> post.userId, content |-> post.content,
     timestamp |-> now,
     activityId |-> OrNum(post.activityId, Null),
     imagePath |-> OrStr(post.imagePath, Null)]

DbCreatePost(post) ==
    LET id == dbSeq.post + 1
        row == DbNewPost(post, id)
    IN /\ dbSeq' = [dbSeq EXCEPT !.post = id]
       /\ IF PostReferencesHold(row) /\ id \notin Ids(dbPosts)
          THEN /\ dbPosts' = dbPosts \cup {row}
               /\ dbRet' = Ok(row)
          ELSE /\ dbPosts' = dbPosts
               /\ dbRet' = Failed("foreign_key_violation")

\* ---------------------------------------------------------------- lists
Max(a, b) == IF a >= b THEN a ELSE b
Least(a, b) == IF a <= b THEN a ELSE b

\* Array.prototype.sort with the comparator (a, b) => sign * (a.timestamp - b.timestamp):
\* sign 1 is oldest first, sign -1 newest first.  The sort is stable: of two records
\* that compare equal, the one that came first stays first.
RECURSIVE SortByTimestamp(_, _)
SortByTimestamp(s, sign) ==
    IF s = <<>> THEN <<>>
    ELSE LET t == SortByTimestamp(SubSeq(s, 1, Len(s) - 1), sign)
             e == s[Len(s)]
             k == Cardinality({i \in DOMAIN t : sign * (t[i].timestamp - e.timestamp) <= 0})
         IN SubSeq(t, 1, k) \o <<e>> \o SubSeq(t, k + 1, Len(t))

\* Array.prototype.slice(start, end)
Slice(s, start, end) ==
    LET from == IF start < 0 THEN Max(Len(s) + start, 0) ELSE Least(start, Len(s))
        to == IF end < 0 THEN Max(Len(s) + end, 0) ELSE Least(end, Len(s))
    IN SubSeq(s, from + 1, to)

\* ORDER BY timestamp ASC (sign 1) or DESC (sign -1): every order of the rows that
\* respects the timestamps; rows with equal timestamps come in any order
RECURSIVE OrderByTimestamp(_, _)
OrderByTimestamp(S, sign) ==
    IF S = {} THEN {<<>>}
    ELSE LET firsts == {r \in S : \A q \in S : sign * (r.timestamp - q.timestamp) <= 0}
         IN UNION {{<<r>> \o t : t \in OrderByTimestamp(S \ {r}, sign)} : r \in firsts}

\* LIMIT limit OFFSET offset
LimitOffset(s, limit, offset) == SubSeq(s, offset + 1, Least(offset + limit, Len(s)))

\* ---------------------------------------------------------------- water intake
MinuteMs == 60 * 1000
HourMs == 60 * MinuteMs
DayMs == 24 * HourMs

\* date.setHours(h, m, s, ms) on a copy of date
SetHours(date, h, m, sec, ms) ==
    (date - (date % DayMs)) + h * HourMs + m * MinuteMs + sec * 1000 + ms

StartOfDay(date) == SetHours(date, 0, 0, 0, 0)

\* mutant: setHours(23, 59, 59) without the milliseconds, which stay as they were
EndOfDayKeepsMillis(date) == SetHours(date, 23, 59, 59, date % 1000)

EndOfDay(date) == SetHours(date, 23, 59, 59, 999)

MemAddWaterIntake(intake) ==
    LET id == waterIntakeIdCounter
        waterIntake == [id |-> id, userId |-> intake.userId, amount |-> intake.amount,
                        timestamp |-> now]
    IN /\ waterIntakeIdCounter' = waterIntakeIdCounter + 1
       /\ waterIntakes' = (id :> waterIntake) @@ waterIntakes
       /\ memRet' = Ok(waterIntake)
       /\ issued' = [issued EXCEPT !.waterIntake = Append(@, id)]

MemGetWaterIntakeByUserId(userId) ==
    LET Test(intake) == intake.userId = userId
    IN Ok(SortByTimestamp(SelectSeq(Values(waterIntakes), Test), -1))

InDay(intake, userId, startOfDay, endOfDay) ==
    /\ intake.userId = userId
    /\ intake.timestamp >= startOfDay
    /\ intake.timestamp <= endOfDay

MemGetWaterIntakeByUserIdAndDate(userId, date) ==
    LET Test(intake) == InDay(intake, userId, StartOfDay(date), EndOfDay(date))
    IN Ok(SortByTimestamp(SelectSeq(Values(waterIntakes), Test), 1))

DbAddWaterIntake(intake) ==
    LET id == dbSeq.waterIntake + 1
        row == [id |-> id, userId |-> intake.userId, amount |-> intake.amount,
                timestamp |-> now]
    IN /\ dbSeq' = [dbSeq EXCEPT !.waterIntake = id]
       /\ IF row.userId \in Ids(dbUsers) /\ id \notin Ids(dbWaterIntake)
          THEN /\ dbWaterIntake' = dbWaterIntake \cup {row}
               /\ dbRet' = Ok(row)
          ELSE /\ dbWaterIntake' = dbWaterIntake
               /\ dbRet' = Failed("foreign_key_violation")

DbGetWaterIntakeByUserId(userId) ==
    {Ok(s) : s \in OrderByTimestamp({row \in dbWaterIntake : row.userId = userId}, -1)}

DbGetWaterIntakeByUserIdAndDate(userId, date) ==
    {Ok(s) : s \in OrderByTimestamp(
        {row \in dbWaterIntake : InDay(row, userId, StartOfDay(date), EndOfDay(date))}, 1)}

\* ---------------------------------------------------------------- activities
NearbyLimit == 10

MemNewActivity(activity, id) ==
    [id |-> id, userId |-> activity.userId, title |-> activity.title,
     type |-> activity.type, distance |-> activity.distance,
     duration |-> activity.duration, timestamp |-> now,
     elevationGain |-> OrNum(activity.elevationGain, Null),
     weather |-> OrStr(activity.weather, Null),
     temperature |-> OrNum(activity.temperature, Null),
     isPublic |-> Coalesce(activity.isPublic, Some(TRUE))]

MemCreateActivity(activity) ==
    LET id == activityIdCounter
    IN /\ activityIdCounter' = activityIdCounter + 1
       /\ activities' = (id :> MemNewActivity(activity, id)) @@ activities
       /\ memRet' = Ok(MemNewActivity(activity, id))
       /\ issued' = [issued EXCEPT !.activity = Append(@, id)]

MemGetActivityById(id) == IF id \in DOMAIN activities THEN Ok(activities[id]) ELSE Absent

MemGetActivitiesByUserId(userId) ==
    LET Test(activity) == activity.userId = userId
    IN Ok(SortByTimestamp(SelectSeq(Values(activities), Test), -1))

MemGetRecentActivities(limit) ==
    LET Test(activity) == activity.isPublic = Some(TRUE)
    IN Ok(Slice(SortByTimestamp(SelectSeq(Values(activities), Test), -1), 0, limit))

MemGetPublicActivitiesNearby(lat, lng, radiusKm) == MemGetRecentActivities(NearbyLimit)

\* mutant: isPublic written as given, without ?? true
DbNewActivityKeepsNull(activity, id) ==
    [id |-> id, userId |-> activity.userId, title |-> activity.title,
     type |-> activity.type, distance |-> activity.distance,
     duration |-> activity.duration, timestamp |-> now,
     elevationGain |-> OrNum(activity.elevationGain, Null),
     weather |-> OrStr(activity.weather, Null),
     temperature |-> OrNum(activity.temperature, Null),
     isPublic |-> activity.isPublic]

DbNewActivity(activity, id) ==
    [id |-> id, userId |-> activity.userId, title |-> activity.title,
     type |-> activity.type, distance |-> activity.distance,
     duration |-> activity.duration, timestamp |-> now,
     elevationGain |-> OrNum(activity.elevationGain, Null),
     weather |-> OrStr(activity.weather, Null),
     temperature |-> OrNum(activity.temperature, Null),
     isPublic |-> Coalesce(activity.isPublic, Some(TRUE))]

DbCreateActivity(activity) ==
    LET id == dbSeq.activity + 1
        row == DbNewActivity(activity, id)
    IN /\ dbSeq' = [dbSeq EXCEPT !.activity = id]
       /\ IF row.userId \in Ids(dbUsers) /\ id \notin Ids(dbActivities)
          THEN /\ dbActivities' = dbActivities \cup {row}
               /\ dbRet' = Ok(row)
          ELSE /\ dbActivities' = dbActivities
               /\ dbRet' = Failed("foreign_key_violation")

DbGetActivityById(id) == First({row \in dbActivities : row.id = id})

DbGetActivitiesByUserId(userId) ==
    {Ok(s) : s \in OrderByTimestamp({row \in dbActivities : row.userId = userId}, -1)}

DbGetRecentActivities(limit) ==
    {Ok(LimitOffset(s, limit, 0)) :
        s \in OrderByTimestamp({row \in dbActivities : row.isPublic = Some(TRUE)}, -1)}

\* mutant: the radius used as the limit
DbGetPublicActivitiesWithinRadius(lat, lng, radiusKm) ==
    {Ok(LimitOffset(s, radiusKm, 0)) :
        s \in OrderByTimestamp({row \in dbActivities : row.isPublic = Some(TRUE)}, -1)}

DbGetPublicActivitiesNearby(lat, lng, radiusKm) ==
    {Ok(LimitOffset(s, NearbyLimit, 0)) :
        s \in OrderByTimestamp({row \in dbActivities : row.isPublic = Some(TRUE)}, -1)}

\* ---------------------------------------------------------------- routes
MemSaveRoute(route) ==
    LET id == routeIdCounter
        newRoute == [id |-> id, activityId |-> route.activityId,
                     coordinates |-> route.coordinates]
    IN /\ routeIdCounter' = routeIdCounter + 1
       /\ routes' = (id :> newRoute) @@ routes
       /\ memRet' = Ok(newRoute)
       /\ issued' = [issued EXCEPT !.route = Append(@, id)]

MemGetRouteByActivityId(activityId) ==
    LET all == Values(routes)
    IN Find(all, {i \in DOMAIN all : all[i].activityId = activityId})

DbSaveRoute(route) ==
    LET id == dbSeq.route + 1
        row == [id |-> id, activityId |-> route.activityId,
                coordinates |-> route.coordinates]
    IN /\ dbSeq' = [dbSeq EXCEPT !.route = id]
       /\ IF row.activityId \in Ids(dbActivities) /\ id \notin Ids(dbRoutes)
          THEN /\ dbRoutes' = dbRoutes \cup {row}
               /\ dbRet' = Ok(row)
          ELSE /\ dbRoutes' = dbRoutes
               /\ dbRet' = Failed("foreign_key_violation")

DbGetRouteByActivityId(activityId) ==
    First({row \in dbRoutes : row.activityId = activityId})

\* ---------------------------------------------------------------- posts: the lists
\* mutant: slice(offset, limit), the end of the window taken for its length
MemGetPostsSliceToLimit(limit, offset) ==
    Ok(Slice(SortByTimestamp(Values(posts), -1), offset, limit))

MemGetPosts(limit, offset) ==
    Ok(Slice(SortByTimestamp(Values(posts), -1), offset, offset + limit))

MemGetPostsByUserId(userId) ==
    LET Test(post) == post.userId = userId
    IN Ok(SortByTimestamp(SelectSeq(Values(posts), Test), -1))

DbGetPosts(limit, offset) ==
    {Ok(LimitOffset(s, limit, offset)) : s \in OrderByTimestamp(dbPosts, -1)}

DbGetPostsByUserId(userId) ==
    {Ok(s) : s \in OrderByTimestamp({row \in dbPosts : row.userId = userId}, -1)}

\* ---------------------------------------------------------------- comments
MemAddComment(comment) ==
    LET id == commentIdCounter
        newComment == [id |-> id, userId |-> comment.userId, postId |-> comment.postId,
                       content |-> comment.content, timestamp |-> now]
    IN /\ commentIdCounter' = commentIdCounter + 1
       /\ comments' = (id :> newComment) @@ comments
       /\ memRet' = Ok(newComment)
       /\ issued' = [issued EXCEPT !.comment = Append(@, id)]

\* mutant: the comparator of the newest-first lists, copied here
MemGetCommentsNewestFirst(postId) ==
    LET Test(comment) == comment.postId = postId
    IN Ok(SortByTimestamp(SelectSeq(Values(comments), Test), -1))

MemGetCommentsByPostId(postId) ==
    LET Test(comment) == comment.postId = postId
    IN Ok(SortByTimestamp(SelectSeq(Values(comments), Test), 1))

DbAddComment(comment) ==
    LET id == dbSeq.comment + 1
        row == [id |-> id, userId |-> comment.userId, postId |-> comment.postId,
                content |-> comment.content, timestamp |-> now]
    IN /\ dbSeq' = [dbSeq EXCEPT !.comment = id]
       /\ IF /\ row.userId \in Ids(dbUsers)
             /\ row.postId \in Ids(dbPosts)
             /\ id \notin Ids(dbComments)
          THEN /\ dbComments' = dbComments \cup {row}
               /\ dbRet' = Ok(row)
          ELSE /\ dbComments' = dbComments
               /\ dbRet' = Failed("foreign_key_violation")

DbGetCommentsByPostId(postId) ==
    {Ok(s) : s \in OrderByTimestamp({row \in dbComments : row.postId = postId}, 1)}

\* ---------------------------------------------------------------- the initial state
\* new MemStorage(): the constructor has created the test user
InitMem ==
    /\ users = (1 :> MemNewUser(SeedUser, 1))
    /\ userIdCounter = 2
    /\ waterIntakes = <<>> /\ waterIntakeIdCounter = 1
    /\ activities = <<>> /\ activityIdCounter = 1
    /\ routes = <<>> /\ routeIdCounter = 1
    /\ posts = <<>> /\ postIdCounter = 1
    /\ likes = <<>> /\ likeIdCounter = 1
    /\ comments = <<>> /\ commentIdCounter = 1
    /\ issued = [user |-> <<1>>, waterIntake |-> <<>>, activity |-> <<>>,
                 route |-> <<>>, post |-> <<>>, like |-> <<>>, comment |-> <<>>]

\* new DatabaseStorage() on a database whose users table holds rows; the other
\* tables are empty and the users sequence has issued the ids of the rows
InitDb(rows) ==
    /\ dbUsers = rows
    /\ dbWaterIntake = {} /\ dbActivities = {} /\ dbRoutes = {}
    /\ dbPosts = {} /\ dbLikes = {} /\ dbComments = {}
    /\ dbSeq = [user |-> Cardinality(rows), waterIntake |-> 0, activity |-> 0,
                route |-> 0, post |-> 0, like |-> 0, comment |-> 0]

InitCalls ==
    /\ now = 0
    /\ op = [name |-> "constructor", arg |-> <<>>]
    /\ memRet = Void
    /\ dbRet = Void
    /\ pc = [c \in Calls |-> "idle"]
    /\ seen = [c \in Calls |-> <<>>]
    /\ res = [code |-> 0, is |-> "none", json |-> <<>>, store |-> "none"]

Init == InitMem /\ InitDb({}) /\ InitCalls

\* ---------------------------------------------------------------- scripted operations
Script(name, arg) ==
    /\ op' = [name |-> name, arg |-> arg]
    /\ UNCHANGED callVars

\* time passes: the clock reads t from now on
Advance(t) ==
    /\ t > now
    /\ now' = t
    /\ UNCHANGED <<memVars, dbVars, op, memRet, dbRet, issued, callVars>>

Do_createUser(insertUser) ==
    /\ Script("createUser", insertUser)
    /\ MemCreateUser(insertUser)
    /\ DbCreateUser(insertUser)
    /\ UNCHANGED <<mW, mA, mR, mP, mL, mC, now>>
    /\ UNCHANGED <<dbWaterIntake, dbActivities, dbRoutes, dbPosts, dbLikes, dbComments>>

Do_updateUser(id, data) ==
    /\ Script("updateUser", <<id, data>>)
    /\ MemUpdateUser(id, data)
    /\ DbUpdateUser(id, data)
    /\ UNCHANGED <<mW, mA, mR, mP, mL, mC, now>>
    /\ UNCHANGED <<dbWaterIntake, dbActivities, dbRoutes, dbPosts, dbLikes, dbComments>>

Do_getUser(id) ==
    /\ Script("getUser", id)
    /\ memRet' = MemGetUser(id)
    /\ dbRet' \in DbGetUser(id)
    /\ UNCHANGED <<memVars, dbVars, now, issued>>

Do_getUserByUsername(username) ==
    /\ Script("getUserByUsername", username)
    /\ memRet' = MemGetUserByUsername(username)
    /\ dbRet' \in DbGetUserByUsername(username)
    /\ UNCHANGED <<memVars, dbVars, now, issued>>

Do_createPost(post) ==
    /\ Script("createPost", post)
    /\ MemCreatePost(post)
    /\ DbCreatePost(post)
    /\ UNCHANGED <<mU, mW, mA, mR, mL, mC, now>>
    /\ UNCHANGED <<dbUsers, dbWaterIntake, dbActivities, dbRoutes, dbLikes, dbComments>>

Do_addLike(like) ==
    /\ Script("addLike", like)
    /\ MemAddLike(like)
    /\ DbAddLike(like)
    /\ UNCHANGED <<mU, mW, mA, mR, mP, mC, now>>
    /\ UNCHANGED <<dbUsers, dbWaterIntake, dbActivities, dbRoutes, dbPosts, dbComments>>

Do_removeLike(userId, postId) ==
    /\ Script("removeLike", <<userId, postId>>)
    /\ MemRemoveLike(userId, postId)
    /\ DbRemoveLike(userId, postId)
    /\ UNCHANGED <<mU, mW, mA, mR, mP, mC, now>>
    /\ UNCHANGED <<dbUsers, dbWaterIntake, dbActivities, dbRoutes, dbPosts, dbComments>>

Do_getLikesByPostId(postId) ==
    /\ Script("getLikesByPostId", postId)
    /\ memRet' = MemGetLikesByPostId(postId)
    /\ dbRet' \in DbGetLikesByPostId(postId)
    /\ UNCHANGED <<memVars, dbVars, now, issued>>

Do_addWaterIntake(intake) ==
    /\ Script("addWaterIntake", intake)
    /\ MemAddWaterIntake(intake)
    /\ DbAddWaterIntake(intake)
    /\ UNCHANGED <<mU, mA, mR, mP, mL, mC, now>>
    /\ UNCHANGED <<dbUsers, dbActivities, dbRoutes, dbPosts, dbLikes, dbComments>>

Do_getWaterIntakeByUserId(userId) ==
    /\ Script("getWaterIntakeByUserId", userId)
    /\ memRet' = MemGetWaterIntakeByUserId(userId)
    /\ dbRet' \in DbGetWaterIntakeByUserId(userId)
    /\ UNCHANGED <<memVars, dbVars, now, issued>>

Do_getWaterIntakeByUserIdAndDate(userId, date) ==
    /\ Script("getWaterIntakeByUserIdAndDate", <<userId, date>>)
    /\ memRet' = MemGetWaterIntakeByUserIdAndDate(userId, date)
    /\ dbRet' \in DbGetWaterIntakeByUserIdAndDate(userId, date)
    /\ UNCHANGED <<memVars, dbVars, now, issued>>

Do_createActivity(activity) ==
    /\ Script("createActivity", activity)
    /\ MemCreateActivity(activity)
    /\ DbCreateActivity(activity)
    /\ UNCHANGED <<mU, mW, mR, mP, mL, mC, now>>
    /\ UNCHANGED <<dbUsers, dbWaterIntake, dbRoutes, dbPosts, dbLikes, dbComments>>

Do_getActivityById(id) ==
    /\ Script("getActivityById", id)
    /\ memRet' = MemGetActivityById(id)
    /\ dbRet' \in DbGetActivityById(id)
    /\ UNCHANGED <<memVars, dbVars, now, issued>>

Do_getActivitiesByUserId(userId) ==
    /\ Script("getActivitiesByUserId", userId)
    /\ memRet' = MemGetActivitiesByUserId(userId)
    /\ dbRet' \in DbGetActivitiesByUserId(userId)
    /\ UNCHANGED <<memVars, dbVars, now, issued>>

Do_getRecentActivities(limit) ==
    /\ Script("getRecentActivities", limit)
    /\ memRet' = MemGetRecentActivities(limit)
    /\ dbRet' \in DbGetRecentActivities(limit)
    /\ UNCHANGED <<memVars, dbVars, now, issued>>

Do_getPublicActivitiesNearby(lat, lng, radiusKm) ==
    /\ Script("getPublicActivitiesNearby", <<lat, lng, radiusKm>>)
    /\ memRet' = MemGetPublicActivitiesNearby(lat, lng, radiusKm)
    /\ dbRet' \in DbGetPublicActivitiesNearby(lat, lng, radiusKm)
    /\ UNCHANGED <<memVars, dbVars, now, issued>>

Do_saveRoute(route) ==
    /\ Script("saveRoute", route)
    /\ MemSaveRoute(route)
    /\ DbSaveRoute(route)
    /\ UNCHANGED <<mU, mW, mA, mP, mL, mC, now>>
    /\ UNCHANGED <<dbUsers, dbWaterIntake, dbActivities, dbPosts, dbLikes, dbComments>>

Do_getRouteByActivityId(activityId) ==
    /\ Script("getRouteByActivityId", activityId)
    /\ memRet' = MemGetRouteByActivityId(activityId)
    /\ dbRet' \in DbGetRouteByActivityId(activityId)
    /\ UNCHANGED <<memVars, dbVars, now, issued>>

Do_getPosts(limit, offset) ==
    /\ Script("getPosts", <<limit, offset>>)
    /\ memRet' = MemGetPosts(limit, offset)
    /\ dbRet' \in DbGetPosts(limit, offset)
    /\ UNCHANGED <<memVars, dbVars, now, issued>>

Do_getPostsByUserId(userId) ==
    /\ Script("getPostsByUserId", userId)
    /\ memRet' = MemGetPostsByUserId(userId)
    /\ dbRet' \in DbGetPostsByUserId(userId)
    /\ UNCHANGED <<memVars, dbVars, now, issued>>

Do_addComment(comment) ==
    /\ Script("addComment", comment)
    /\ MemAddComment(comment)
    /\ DbAddComment(comment)
    /\ UNCHANGED <<mU, mW, mA, mR, mP, mL, now>>
    /\ UNCHANGED <<dbUsers, dbWaterIntake, dbActivities, dbRoutes, dbPosts, dbLikes>>

Do_getCommentsByPostId(postId) ==
    /\ Script("getCommentsByPostId", postId)
    /\ memRet' = MemGetCommentsByPostId(postId)
    /\ dbRet' \in DbGetCommentsByPostId(postId)
    /\ UNCHANGED <<memVars, dbVars, now, issued>>

\* ---------------------------------------------------------------- likes: the script
PlainIntake(userId) == [userId |-> userId, amount |-> 250]

PlainActivity(userId) ==
    [userId |-> userId, title |-> "run", type |-> "run", distance |-> 5,
     duration |-> 1800, elevationGain |-> Null, weather |-> Null,
     temperature |-> Null, isPublic |-> Null]

PlainRoute(activityId) == [activityId |-> activityId, coordinates |-> "[]"]

PlainComment(userId, postId) == [userId |-> userId, postId |-> postId, content |-> "nice"]

PlainUser(username) ==
    [username |-> username, password |-> "password", email |-> "a@example.com",
     profilePicture |-> Null, dailyWaterGoal |-> Null]

PlainPost(userId) ==
    [userId |-> userId, activityId |-> Null, content |-> "hello", imagePath |-> Null]

LikeInputs == [userId : LikeUserIds, postId : LikePostIds]

\* the users and posts the likes refer to are created once each
LikeSetup ==
    \/ /\ MemGetUserByUsername("alice").kind = "absent"
       /\ Do_createUser(PlainUser("alice"))
    \/ \E postId \in LikePostIds :
          /\ postIdCounter = postId
          /\ Do_createPost(PlainPost(1))

NextLikes ==
    \/ LikeSetup
    \/ \E like \in LikeInputs :
          /\ likeIdCounter <= MaxLikes /\ dbSeq.like < MaxLikes
          /\ Do_addLike(like)
    \/ \E userId \in LikeUserIds, postId \in LikePostIds : Do_removeLike(userId, postId)
    \/ \E postId \in LikePostIds : Do_getLikesByPostId(postId)

SpecLikes == Init /\ [][NextLikes]_vars

\* ---------------------------------------------------------------- likes: concurrent calls
NextRace ==
    \/ LikeSetup
    \/ \E c \in Calls, like \in LikeInputs :
          /\ dbSeq.like + Cardinality({d \in Calls : pc[d] = "selected"}) < MaxLikes
          /\ AddLikeSelect(c, like)
    \/ \E c \in Calls : AddLikeReturn(c)
    \/ \E c \in Calls : AddLikeAgain(c)

SpecRace == Init /\ [][NextRace]_vars

\* ---------------------------------------------------------------- water intake: the script
\* addWaterIntake calls of a script
MaxIntakes == 2

\* the instants the clock shows after the first millisecond of day 0, where it
\* starts: the last millisecond of day 0, the first of day 1, the first of day 2
WaterInstants == {DayMs - 1, DayMs, 2 * DayMs}
\* the dates a script asks for: noon of day 0, noon of day 1, and the last
\* millisecond of day 0
WaterDates == {12 * HourMs, DayMs + 12 * HourMs, DayMs - 1}
WaterUserIds == {1, 2}

\* two users, created one after the other: DatabaseStorage then holds users 1 and 2
TwoUsers ==
    \/ userIdCounter = 2 /\ Do_createUser(PlainUser("alice"))
    \/ userIdCounter = 3 /\ Do_createUser(PlainUser("bob"))

NextWater ==
    \/ TwoUsers
    \/ \E t \in WaterInstants : Advance(t)
    \/ \E userId \in WaterUserIds :
          /\ waterIntakeIdCounter <= MaxIntakes
          /\ Do_addWaterIntake(PlainIntake(userId))
    \/ \E userId \in WaterUserIds, date \in WaterDates :
          Do_getWaterIntakeByUserIdAndDate(userId, date)

SpecWater == Init /\ [][NextWater]_vars

\* ---------------------------------------------------------------- posts: the script
\* createPost calls of a script
MaxPosts == 3

PageLimits == 0..3
PageOffsets == 0..4

NextPosts ==
    \/ userIdCounter = 2 /\ Do_createUser(PlainUser("alice"))
    \/ \E t \in 1..MaxClock : Advance(t)
    \/ postIdCounter <= MaxPosts /\ Do_createPost(PlainPost(1))
    \/ \E limit \in PageLimits, offset \in PageOffsets : Do_getPosts(limit, offset)

SpecPosts == Init /\ [][NextPosts]_vars

\* ---------------------------------------------------------------- lists: the script
\* records with a timestamp created by one script, over all entities, after the
\* first post
MaxListed == 2
\* the clock of a script about lists runs from 0 to this
MaxListClock == 1

Listed == Len(issued.waterIntake) + Len(issued.activity) + (Len(issued.post) - 1)
          + Len(issued.comment)

\* two users and a first post, for the records created later to refer to
ListSetup ==
    \/ TwoUsers
    \/ userIdCounter = 4 /\ postIdCounter = 1 /\ Do_createPost(PlainPost(1))

HiddenActivity(userId) == [PlainActivity(userId) EXCEPT !.isPublic = Some(FALSE)]

ListUserIds == {1, 2}
ListPostIds == {1, 2}

ListCreate ==
    /\ postIdCounter > 1
    /\ Listed < MaxListed
    /\ \/ \E userId \in ListUserIds : Do_addWaterIntake(PlainIntake(userId))
       \/ \E userId \in ListUserIds : Do_createActivity(PlainActivity(userId))
       \/ \E userId \in ListUserIds : Do_createActivity(HiddenActivity(userId))
       \/ \E userId \in ListUserIds : Do_createPost(PlainPost(userId))
       \/ \E postId \in ListPostIds : Do_addComment(PlainComment(1, postId))

ListQuery ==
    \/ \E userId \in ListUserIds : Do_getWaterIntakeByUserId(userId)
    \/ \E userId \in ListUserIds : Do_getWaterIntakeByUserIdAndDate(userId, 0)
    \/ \E userId \in ListUserIds : Do_getActivitiesByUserId(userId)
    \/ \E limit \in {1, 5} : Do_getRecentActivities(limit)
    \/ \E page \in {<<2, 0>>, <<1, 1>>} : Do_getPosts(page[1], page[2])
    \/ \E userId \in ListUserIds : Do_getPostsByUserId(userId)
    \/ \E postId \in ListPostIds : Do_getCommentsByPostId(postId)

NextLists ==
    \/ ListSetup
    \/ \E t \in 1..MaxListClock : Advance(t)
    \/ ListCreate
    \/ ListQuery

SpecLists == Init /\ [][NextLists]_vars

\* ---------------------------------------------------------------- users: the scripts
\* the partial records a script passes to updateUser
Partials ==
    {[email |-> "new@example.com"],
     [username |-> "carol"],
     [profilePicture |-> Some("pic.png"), dailyWaterGoal |-> Some(3000)]}

\* the ids a script about users names: 4 is the id of no user
UpdateUserIds == {1, 2, 3, 4}

RichUser(username) ==
    [username |-> username, password |-> "secret", email |-> "b@example.com",
     profilePicture |-> Some("pic.png"), dailyWaterGoal |-> Some(1500)]

Usernames == {"testuser", "alice"}
UserInputs == {PlainUser(username) : username \in Usernames}
              \cup {RichUser(username) : username \in Usernames}

NextUsers ==
    \/ \E insertUser \in UserInputs :
          /\ dbSeq.user < MaxUsers
          /\ Do_createUser(insertUser)
    \/ \E id \in 1..(MaxUsers + 2) : Do_getUser(id)
    \/ \E username \in Usernames : Do_getUserByUsername(username)

SpecUsers == Init /\ [][NextUsers]_vars

NextUpdate ==
    \/ TwoUsers
    \/ \E id \in UpdateUserIds, data \in Partials : Do_updateUser(id, data)
    \/ \E id \in UpdateUserIds : Do_getUser(id)

SpecUpdate == Init /\ [][NextUpdate]_vars

\* ---------------------------------------------------------------- both stores: the scripts
\* records one script creates
MaxScript == 2

\* the readings of the clock after the first
ScriptInstants == {1}

\* a user whose optional fields are set to falsy values
BlankUser(username) ==
    [username |-> username, password |-> "secret", email |-> "b@example.com",
     profilePicture |-> Some(""), dailyWaterGoal |-> Some(0)]

\* the database is empty, or createUser(SeedUser) has been run on it before
InitSeeded == InitMem /\ (InitDb({}) \/ InitDb({DbNewUser(SeedUser, 1)})) /\ InitCalls

ScriptCreates == Len(issued.user) + Len(issued.waterIntake) + Len(issued.activity)
                 + Len(issued.route) + Len(issued.post) + Len(issued.like)
                 + Len(issued.comment) - 1

ScriptRoom == ScriptCreates < MaxScript

\* a script inserts no username that a stored user has
ScriptCreateUser ==
    /\ ScriptRoom
    /\ MemGetUserByUsername("alice").kind = "absent"
    /\ \A row \in dbUsers : row.username # "alice"
    /\ Do_createUser(BlankUser("alice"))

ScriptChange ==
    \/ \E id \in {1, 2} : Do_updateUser(id, [username |-> "alice"])
    \/ Do_removeLike(1, 1)
    \/ \E t \in ScriptInstants : Advance(t)

ScriptRead ==
    \/ \E id \in {1, 2} : Do_getUser(id)
    \/ Do_getUserByUsername("alice")
    \/ Do_getWaterIntakeByUserId(1)
    \/ Do_getWaterIntakeByUserIdAndDate(1, 0)
    \/ Do_getActivityById(1)
    \/ Do_getActivitiesByUserId(1)
    \/ Do_getRecentActivities(2)
    \/ Do_getPublicActivitiesNearby(0, 0, 5)
    \/ Do_getRouteByActivityId(1)
    \/ Do_getPosts(2, 0)
    \/ Do_getPostsByUserId(1)
    \/ Do_getLikesByPostId(1)
    \/ Do_getCommentsByPostId(1)

NextParity ==
    \/ ScriptCreateUser
    \/ ScriptRoom /\ Do_addWaterIntake(PlainIntake(1))
    \/ ScriptRoom /\ Do_createActivity(PlainActivity(1))
    \/ ScriptRoom /\ Do_saveRoute(PlainRoute(1))
    \/ ScriptRoom /\ Do_createPost(PlainPost(1))
    \/ ScriptRoom /\ dbSeq.like < MaxScript /\ Do_addLike([userId |-> 1, postId |-> 1])
    \/ ScriptRoom /\ Do_addComment(PlainComment(1, 1))
    \/ ScriptChange
    \/ ScriptRead

SpecParity == InitSeeded /\ [][NextParity]_vars

\* ---------------------------------------------------------------- identifiers: the script
\* records created by one script, over all entities (the seed user included)
MaxIssued == 5

Created == Len(issued.user) + Len(issued.waterIntake) + Len(issued.activity)
           + Len(issued.route) + Len(issued.post) + Len(issued.like)
           + Len(issued.comment)

NextIds ==
    \/ Created < MaxIssued /\ Do_createUser(PlainUser("alice"))
    \/ Created < MaxIssued /\ Do_addWaterIntake(PlainIntake(1))
    \/ Created < MaxIssued /\ Do_createActivity(PlainActivity(1))
    \/ Created < MaxIssued /\ Do_saveRoute(PlainRoute(1))
    \/ Created < MaxIssued /\ Do_createPost(PlainPost(1))
    \/ Created < MaxIssued /\ Do_addComment(PlainComment(1, 1))
    \/ \E postId \in 1..2 :
          /\ Created < MaxIssued /\ dbSeq.like < MaxIssued
          /\ Do_addLike([userId |-> 1, postId |-> postId])
    \/ \E postId \in 1..2 : Do_removeLike(1, postId)

SpecIds == Init /\ [][NextIds]_vars

\* ---------------------------------------------------------------- nearby: the script
\* activities one script creates: more than the query returns
MaxActivities == 12

\* the activities that may be private, and those that may be created in the same
\* millisecond as the one before
HiddenIds == {2}
TiedIds == {2, 3}
NearbyTriples == {<<0, 0, 5>>, <<48, 11, 1>>}

NearbyCreate ==
    \E activity \in {PlainActivity(1)}
                    \cup (IF activityIdCounter \in HiddenIds
                          THEN {HiddenActivity(1)} ELSE {}) :
       /\ userIdCounter > 2 /\ activityIdCounter <= MaxActivities
       /\ \/ activityIdCounter \in TiedIds
          \/ \A k \in DOMAIN activities : activities[k].timestamp < now
       /\ Do_createActivity(activity)

NextNearby ==
    \/ userIdCounter = 2 /\ Do_createUser(PlainUser("alice"))
    \/ NearbyCreate
    \/ (\E k \in DOMAIN activities : activities[k].timestamp = now) /\ Advance(now + 1)
    \/ \E t \in NearbyTriples : Do_getPublicActivitiesNearby(t[1], t[2], t[3])
    \/ Do_getRecentActivities(NearbyLimit)

SpecNearby == Init /\ [][NextNearby]_vars

\* ---------------------------------------------------------------- defaults: the script
\* optional fields left unset, set to falsy values, and set to other values
ZeroActivity(userId) ==
    [PlainActivity(userId) EXCEPT !.elevationGain = Some(0), !.weather = Some(""),
                                  !.temperature = Some(0), !.isPublic = Some(FALSE)]
FullActivity(userId) ==
    [PlainActivity(userId) EXCEPT !.elevationGain = Some(120), !.weather = Some("sunny"),
                                  !.temperature = Some(21), !.isPublic = Some(TRUE)]
BlankPost(userId) == [PlainPost(userId) EXCEPT !.imagePath = Some("")]
FullPost(userId) ==
    [PlainPost(userId) EXCEPT !.imagePath = Some("p.png"), !.activityId = Some(1)]

NextDefaults ==
    \/ \E insertUser \in {PlainUser("alice"), BlankUser("bob"), RichUser("carol")} :
          ScriptRoom /\ Do_createUser(insertUser)
    \/ \E activity \in {PlainActivity(1), ZeroActivity(1), FullActivity(1)} :
          ScriptRoom /\ Do_createActivity(activity)
    \/ \E post \in {PlainPost(1), BlankPost(1), FullPost(1)} :
          ScriptRoom /\ Do_createPost(post)
    \/ \E id \in {1, 2} : Do_getUser(id)
    \/ Do_getActivityById(1)

SpecDefaults == Init /\ [][NextDefaults]_vars

\* ---------------------------------------------------------------- routes.ts: users
\* `storage` is one of the two implementations, the same for every request
Stores == {"mem", "db"}
Ret(s) == IF s = "mem" THEN memRet ELSE dbRet
RetAfter(s) == IF s = "mem" THEN memRet' ELSE dbRet'

Serving(s) ==
    /\ res.store \in {"none", s}
    /\ \A c \in Calls : pc[c] = "lookedUp" => seen[c].store = s

\* parseInt(string): the decimal digits at the start of the string, after an
\* optional sign, as a number; NaN (here Null) when there is none
DigitOf == ("0" :> 0) @@ ("1" :> 1) @@ ("2" :> 2) @@ ("3" :> 3) @@ ("4" :> 4)
           @@ ("5" :> 5) @@ ("6" :> 6) @@ ("7" :> 7) @@ ("8" :> 8) @@ ("9" :> 9)

RECURSIVE DecimalValue(_, _)
DecimalValue(chars, n) ==
    IF n = 0 THEN 0 ELSE 10 * DecimalValue(chars, n - 1) + DigitOf[chars[n]]

ParseInt(chars) ==
    LET signed == chars # <<>> /\ chars[1] \in {"-", "+"}
        digits == IF signed THEN Tail(chars) ELSE chars
        stops == {i \in 1..(Len(digits) + 1) :
                     i = Len(digits) + 1 \/ digits[i] \notin DOMAIN DigitOf}
        n == Min(stops) - 1
    IN IF n = 0 THEN Null
       ELSE IF signed /\ chars[1] = "-" THEN Some(0 - DecimalValue(digits, n))
       ELSE Some(DecimalValue(digits, n))

\* insertUserSchema.parse(req.body): the picked columns, unknown keys dropped;
\* username, password and email are required
InsertUserColumns == {"username", "password", "email", "profilePicture", "dailyWaterGoal"}

ParseInsertUser(body) ==
    IF {"username", "password", "email"} \subseteq DOMAIN body
    THEN Ok([f \in InsertUserColumns |-> IF f \in DOMAIN body THEN body[f] ELSE Null])
    ELSE Failed("ZodError")

\* mutant: the user sent as the store returned it
WithPassword(user) == user

\* const { password, ...userWithoutPassword } = user
WithoutPassword(user) == [f \in DOMAIN user \ {"password"} |-> user[f]]

\* res.status(code).json(json), sent by the handler `name` for the request arg
Send(s, name, arg, code, is, json) ==
    /\ res' = [code |-> code, is |-> is, json |-> json, store |-> s]
    /\ op' = [name |-> name, arg |-> arg]

SendUser(s, name, arg, code, user) ==
    Send(s, name, arg, code, "user", WithoutPassword(user))

\* a query of store s returns ret and changes no store
Returns(s, ret) ==
    /\ IF s = "mem" THEN memRet' = ret /\ dbRet' = dbRet
                    ELSE dbRet' = ret /\ memRet' = memRet
    /\ UNCHANGED <<memVars, dbVars, issued, now>>

\* storage.getUser(userId), userId from parseInt: no key of the map is NaN; what
\* the database driver makes of NaN is not in this repository
GetUserOf(s, userId) ==
    IF userId = Null
    THEN IF s = "mem" THEN {Absent}
         ELSE {Absent, Failed("invalid input syntax for type integer")}
    ELSE IF s = "mem" THEN {MemGetUser(userId[1])} ELSE DbGetUser(userId[1])

GetUserByUsernameOf(s, username) ==
    IF s = "mem" THEN {MemGetUserByUsername(username)}
    ELSE DbGetUserByUsername(username)

CreateUserOf(s, userData) ==
    IF s = "mem"
    THEN /\ MemCreateUser(userData)
         /\ UNCHANGED <<mW, mA, mR, mP, mL, mC, dbVars, dbRet, now>>
    ELSE /\ DbCreateUser(userData)
         /\ UNCHANGED <<memVars, memRet, issued, now>>
         /\ UNCHANGED <<dbWaterIntake, dbActivities, dbRoutes, dbPosts, dbLikes, dbComments>>

UpdateUserOf(s, id, data) ==
    IF s = "mem"
    THEN /\ MemUpdateUser(id, data)
         /\ UNCHANGED <<mW, mA, mR, mP, mL, mC, dbVars, dbRet, now>>
    ELSE /\ DbUpdateUser(id, data)
         /\ UNCHANGED <<memVars, memRet, issued, now>>
         /\ UNCHANGED <<dbWaterIntake, dbActivities, dbRoutes, dbPosts, dbLikes, dbComments>>

\* POST /api/register up to its second await: the body is parsed and the
\* username looked up
RegisterLookup(c, s, body) ==
    LET userData == ParseInsertUser(body)
    IN /\ pc[c] = "idle" /\ Serving(s)
       /\ IF userData.kind = "error"
          THEN /\ Send(s, "POST /api/register", body, 400, "message", userData.val)
               /\ UNCHANGED <<memVars, dbVars, issued, now, memRet, dbRet, pc, seen>>
          ELSE \E existingUser \in GetUserByUsernameOf(s, userData.val.username) :
                 IF existingUser.kind = "ok"
                 THEN /\ Returns(s, existingUser)
                      /\ Send(s, "POST /api/register", body, 400, "message",
                              "Username already exists")
                      /\ UNCHANGED <<pc, seen>>
                 ELSE /\ pc' = [pc EXCEPT ![c] = "lookedUp"]
                      /\ seen' = [seen EXCEPT ![c] = [store |-> s, body |-> body,
                                                     userData |-> userData.val]]
                      /\ UNCHANGED <<memVars, dbVars, issued, now, memRet, dbRet>>
                      /\ UNCHANGED <<op, res>>

\* POST /api/register from its second await: the user is created and sent
RegisterCreate(c) ==
    LET s == seen[c].store
    IN /\ pc[c] = "lookedUp"
       /\ CreateUserOf(s, seen[c].userData)
       /\ IF RetAfter(s).kind = "ok"
          THEN SendUser(s, "POST /api/register", seen[c].body, 201, RetAfter(s).val)
          ELSE Send(s, "POST /api/register", seen[c].body, 400, "message", RetAfter(s).val)
       /\ pc' = [pc EXCEPT ![c] = "idle"]
       /\ seen' = [seen EXCEPT ![c] = <<>>]

\* POST /api/login
Login(s, body) ==
    /\ Serving(s)
    /\ \E user \in GetUserByUsernameOf(s, body.username) :
          /\ Returns(s, user)
          /\ IF user.kind # "ok" \/ user.val.password # body.password
             THEN Send(s, "POST /api/login", body, 401, "message", "Invalid credentials")
             ELSE SendUser(s, "POST /api/login", body, 200, user.val)
    /\ UNCHANGED <<pc, seen>>

\* GET /api/users/:userId
GetUserHandler(s, param) ==
    /\ Serving(s)
    /\ \E user \in GetUserOf(s, ParseInt(param)) :
          /\ Returns(s, user)
          /\ CASE user.kind = "ok" ->
                    SendUser(s, "GET /api/users/:userId", param, 200, user.val)
               [] user.kind = "absent" ->
                    Send(s, "GET /api/users/:userId", param, 404, "message",
                         "User not found")
               [] OTHER ->
                    Send(s, "GET /api/users/:userId", param, 400, "message", user.val)
    /\ UNCHANGED <<pc, seen>>

\* PATCH /api/users/:userId: the body goes to updateUser as it came.  No user is
\* ever deleted, so nothing can happen between the two awaits that matters.
PatchUserHandler(s, param, body) ==
    /\ Serving(s)
    /\ \E existingUser \in GetUserOf(s, ParseInt(param)) :
          CASE existingUser.kind = "ok" ->
                 /\ UpdateUserOf(s, ParseInt(param)[1], body)
                 /\ IF RetAfter(s).kind = "ok"
                    THEN SendUser(s, "PATCH /api/users/:userId", <<param, body>>, 200,
                                  RetAfter(s).val)
                    ELSE Send(s, "PATCH /api/users/:userId", <<param, body>>, 400,
                              "message", RetAfter(s).val)
            [] existingUser.kind = "absent" ->
                 /\ Returns(s, existingUser)
                 /\ Send(s, "PATCH /api/users/:userId", <<param, body>>, 404,
                         "message", "User not found")
            [] OTHER ->
                 /\ Returns(s, existingUser)
                 /\ Send(s, "PATCH /api/users/:userId", <<param, body>>, 400,
                         "message", existingUser.val)
    /\ UNCHANGED <<pc, seen>>

\* ---------------------------------------------------------------- routes.ts: dispatch
\* the GET routes in the order registerRoutes registers them; a path is the
\* sequence of its segments, a segment the sequence of its characters
GetRoutes ==
    LET api == <<"a", "p", "i">>
        usrs == <<"u", "s", "e", "r", "s">>
        acts == <<"a", "c", "t", "i", "v", "i", "t", "i", "e", "s">>
        psts == <<"p", "o", "s", "t", "s">>
        Lit(chars) == [lit |-> chars]
        Param(name) == [param |-> name]
    IN << [handler |-> "GET /api/users/:userId",
           path |-> <<Lit(api), Lit(usrs), Param("userId")>>],
          [handler |-> "GET /api/users/:userId/water-intake",
           path |-> <<Lit(api), Lit(usrs), Param("userId"),
                      Lit(<<"w", "a", "t", "e", "r", "-", "i", "n", "t", "a", "k", "e">>)>>],
          [handler |-> "GET /api/activities/:activityId",
           path |-> <<Lit(api), Lit(acts), Param("activityId")>>],
          [handler |-> "GET /api/users/:userId/activities",
           path |-> <<Lit(api), Lit(usrs), Param("userId"), Lit(acts)>>],
          [handler |-> "GET /api/activities/nearby",
           path |-> <<Lit(api), Lit(acts), Lit(<<"n", "e", "a", "r", "b", "y">>)>>],
          [handler |-> "GET /api/posts", path |-> <<Lit(api), Lit(psts)>>],
          [handler |-> "GET /api/posts/:postId/likes",
           path |-> <<Lit(api), Lit(psts), Param("postId"),
                      Lit(<<"l", "i", "k", "e", "s">>)>>],
          [handler |-> "GET /api/posts/:postId/comments",
           path |-> <<Lit(api), Lit(psts), Param("postId"),
                      Lit(<<"c", "o", "m", "m", "e", "n", "t", "s">>)>>] >>

\* a route path matches a request path segment by segment: a literal its equal,
\* a parameter any segment that is not empty
Matches(pattern, path) ==
    /\ Len(pattern) = Len(path)
    /\ \A i \in DOMAIN pattern :
          IF "param" \in DOMAIN pattern[i] THEN path[i] # <<>>
          ELSE pattern[i].lit = path[i]

\* the handler of the first registered route that matches; it answers the
\* request itself, so no later route sees it
Dispatch(path) ==
    LET hits == {i \in DOMAIN GetRoutes : Matches(GetRoutes[i].path, path)}
    IN IF hits = {} THEN "none" ELSE GetRoutes[Min(hits)].handler

\* z.coerce.number(): Number(value) of a query string, refused when NaN; the
\* strings here are decimal integers or not numbers at all
CoerceNumber(chars) ==
    IF chars # <<>> /\ \A i \in DOMAIN chars : chars[i] \in DOMAIN DigitOf
    THEN ParseInt(chars) ELSE Null

\* the query of GET /api/activities/nearby, parsed: radius defaults to 5
ParseNearbyQuery(query) ==
    LET lat == IF "lat" \in DOMAIN query THEN CoerceNumber(query.lat) ELSE Null
        lng == IF "lng" \in DOMAIN query THEN CoerceNumber(query.lng) ELSE Null
        radius == IF "radius" \in DOMAIN query THEN CoerceNumber(query.radius)
                  ELSE Some(5)
    IN IF lat = Null \/ lng = Null \/ radius = Null THEN Failed("ZodError")
       ELSE Ok(<<lat[1], lng[1], radius[1]>>)

GetActivityOf(s, activityId) ==
    IF activityId = Null
    THEN IF s = "mem" THEN {Absent}
         ELSE {Absent, Failed("invalid input syntax for type integer")}
    ELSE IF s = "mem" THEN {MemGetActivityById(activityId[1])}
         ELSE DbGetActivityById(activityId[1])

GetRouteOf(s, activityId) ==
    IF s = "mem" THEN {MemGetRouteByActivityId(activityId)}
    ELSE DbGetRouteByActivityId(activityId)

NearbyOf(s, lat, lng, radius) ==
    IF s = "mem" THEN {MemGetPublicActivitiesNearby(lat, lng, radius)}
    ELSE DbGetPublicActivitiesNearby(lat, lng, radius)

\* GET /api/activities/:activityId
ActivityHandler(s, request) ==
    LET name == "GET /api/activities/:activityId"
        activityId == ParseInt(request.path[3])
    IN \E activity \in GetActivityOf(s, activityId) :
          CASE activity.kind = "ok" ->
                 \E route \in GetRouteOf(s, activityId[1]) :
                    /\ Returns(s, route)
                    /\ Send(s, name, request, 200, "activity",
                            [activity |-> activity.val,
                             route |-> IF route.kind = "ok" THEN Some(route.val) ELSE Null])
            [] activity.kind = "absent" ->
                 /\ Returns(s, activity)
                 /\ Send(s, name, request, 404, "message", "Activity not found")
            [] OTHER ->
                 /\ Returns(s, activity)
                 /\ Send(s, name, request, 400, "message", activity.val)

\* GET /api/activities/nearby
NearbyHandler(s, request) ==
    LET name == "GET /api/activities/nearby"
        parsed == ParseNearbyQuery(request.query)
    IN IF parsed.kind = "error"
       THEN /\ Send(s, name, request, 400, "message", parsed.val)
            /\ UNCHANGED <<memVars, dbVars, issued, now, memRet, dbRet>>
       ELSE \E found \in NearbyOf(s, parsed.val[1], parsed.val[2], parsed.val[3]) :
               /\ Returns(s, found)
               /\ Send(s, name, request, 200, "list", found.val)

\* a GET request under /api/activities goes to the handler the dispatch names
Get(s, request) ==
    /\ Serving(s)
    /\ CASE Dispatch(request.path) = "GET /api/activities/:activityId" ->
              ActivityHandler(s, request)
         [] Dispatch(request.path) = "GET /api/activities/nearby" ->
              NearbyHandler(s, request)
         [] OTHER -> FALSE
    /\ UNCHANGED <<pc, seen>>

\* ---------------------------------------------------------------- routes.ts: GET requests
\* the path /api/activities/<segment>
ActivitiesPath(segment) ==
    <<<<"a", "p", "i">>, <<"a", "c", "t", "i", "v", "i", "t", "i", "e", "s">>, segment>>

NearbyPath == ActivitiesPath(<<"n", "e", "a", "r", "b", "y">>)

\* ?lat=0&lng=0, ?lat=48&lng=11&radius=1, ?lat=x&lng=0
NearbyQueries == {[lat |-> <<"0">>, lng |-> <<"0">>],
                  [lat |-> <<"4", "8">>, lng |-> <<"1", "1">>, radius |-> <<"1">>],
                  [lat |-> <<"x">>, lng |-> <<"0">>]}

GetRequests ==
    {[path |-> ActivitiesPath(segment), query |-> query] :
        segment \in {<<"1">>, <<"2">>, <<"n", "e", "a", "r", "b", "y">>},
        query \in NearbyQueries}

\* what the requests find: a user, up to two activities, a route of the first
DispatchSetup ==
    \/ userIdCounter = 2 /\ Do_createUser(PlainUser("alice"))
    \/ \E activity \in {PlainActivity(1), HiddenActivity(1)} :
          /\ userIdCounter > 2 /\ activityIdCounter \in {1, 2}
          /\ Do_createActivity(activity)
    \/ activityIdCounter > 1 /\ routeIdCounter = 1 /\ Do_saveRoute(PlainRoute(1))

NextDispatch ==
    \/ DispatchSetup
    \/ \E s \in Stores, request \in GetRequests : Get(s, request)

SpecDispatch == Init /\ [][NextDispatch]_vars

\* ---------------------------------------------------------------- routes.ts: the requests
\* users one server run registers
MaxRegistered == 2

Registered(s) == IF s = "mem" THEN userIdCounter - 2 ELSE dbSeq.user
Pending == Cardinality({c \in Calls : pc[c] = "lookedUp"})

\* the last body lacks the required password and email
RegisterBodies == {PlainUser("alice"), RichUser("alice"), PlainUser("testuser"),
                   [username |-> "alice"]}
LoginBodies == {[username |-> "alice", password |-> "password"],
                [username |-> "alice", password |-> "wrong"],
                [username |-> "testuser", password |-> "password"]}
UserParams == {<<"1">>, <<"2">>, <<"x">>}
PatchBodies == {[email |-> "new@example.com"], [password |-> "changed"], [id |-> 2]}

NextRegister ==
    \/ \E c \in Calls, s \in Stores, body \in RegisterBodies :
          /\ Registered(s) + Pending < MaxRegistered
          /\ RegisterLookup(c, s, body)
    \/ \E c \in Calls : RegisterCreate(c)

SpecRegister == Init /\ [][NextRegister]_vars

NextAccounts ==
    \/ NextRegister
    \/ \E s \in Stores, body \in LoginBodies : Login(s, body)
    \/ \E s \in Stores, param \in UserParams : GetUserHandler(s, param)
    \/ \E s \in Stores, param \in UserParams, body \in PatchBodies :
          PatchUserHandler(s, param, body)

SpecAccounts == Init /\ [][NextAccounts]_vars

\* ---------------------------------------------------------------- claims
OneToN(n) == [i \in 1..n |-> i]

CreatedEntity(name) ==
    CASE name = "createUser" -> "user"
      [] name = "addWaterIntake" -> "waterIntake"
      [] name = "createActivity" -> "activity"
      [] name = "saveRoute" -> "route"
      [] name = "createPost" -> "post"
      [] name = "addComment" -> "comment"
      [] OTHER -> "none"

\* C1: in MemStorage the ids issued for each entity are 1, 2, ..., N in issuance
\* order, each once: the history of issued ids is <<1, ..., N>>, the counter is
\* N + 1, every stored key was issued, a creation returns the id issued last, and
\* an addLike returns an id already issued; removeLike changes none of this.
C1_IdsAreOneToN ==
    /\ \A e \in DOMAIN issued : issued[e] = OneToN(Len(issued[e]))
    /\ userIdCounter = Len(issued.user) + 1 /\ DOMAIN users = 1..Len(issued.user)
    /\ waterIntakeIdCounter = Len(issued.waterIntake) + 1
    /\ DOMAIN waterIntakes = 1..Len(issued.waterIntake)
    /\ activityIdCounter = Len(issued.activity) + 1
    /\ DOMAIN activities = 1..Len(issued.activity)
    /\ routeIdCounter = Len(issued.route) + 1 /\ DOMAIN routes = 1..Len(issued.route)
    /\ postIdCounter = Len(issued.post) + 1 /\ DOMAIN posts = 1..Len(issued.post)
    /\ commentIdCounter = Len(issued.comment) + 1
    /\ DOMAIN comments = 1..Len(issued.comment)
    /\ likeIdCounter = Len(issued.like) + 1 /\ DOMAIN likes \subseteq 1..Len(issued.like)
    /\ CreatedEntity(op.name) # "none" =>
           memRet.val.id = Len(issued[CreatedEntity(op.name)])
    /\ op.name = "addLike" =>
           /\ memRet.val.id \in 1..Len(issued.like)
           /\ memRet.val.id \in DOMAIN likes

\* a Like was removed and a later addLike created a new one
C1_Witness ==
    /\ op.name = "addLike"
    /\ memRet.val.id = Len(issued.like)
    /\ Cardinality(DOMAIN likes) < Len(issued.like)
    /\ Len(issued.post) >= 1

MemLikesOfPair(userId, postId) ==
    {k \in DOMAIN likes : likes[k].userId = userId /\ likes[k].postId = postId}

\* C2: in MemStorage there is at most one Like per (userId, postId) pair; after
\* addLike(u, p) getLikesByPostId(p) holds exactly one Like of u, the one returned;
\* and an addLike repeated right away returns the same Like and changes nothing.
C2_AtMostOneLikePerPair ==
    /\ \A k \in DOMAIN likes :
           MemLikesOfPair(likes[k].userId, likes[k].postId) = {k}
    /\ op.name = "addLike" =>
           LET listed == MemGetLikesByPostId(op.arg.postId).val
               mine == {i \in DOMAIN listed : listed[i].userId = op.arg.userId}
           IN /\ Cardinality(mine) = 1
              /\ \A i \in mine : listed[i] = memRet.val

C2_AddLikeIdempotent ==
    []C2_AtMostOneLikePerPair
    /\ [][(op.name = "addLike" /\ op'.name = "addLike" /\ op'.arg = op.arg)
            => (memRet' = memRet /\ likes' = likes /\ likeIdCounter' = likeIdCounter)]_vars

\* addLike was called for a pair that already had a Like
C2_Witness ==
    /\ op.name = "addLike"
    /\ memRet.val.id < Len(issued.like)
    /\ Cardinality(DOMAIN likes) >= 2

\* C4: removeLike(u, p) does not fail; it removes only Likes of the pair (u, p),
\* leaves every other Like, every other table and every counter as they were, and
\* changes nothing at all when no Like of the pair exists (both stores).
C4_RemoveLikeFrame ==
    [][op'.name = "removeLike" =>
        LET u == op'.arg[1]
            p == op'.arg[2]
        IN /\ memRet'.kind = "void" /\ dbRet'.kind = "void"
           /\ UNCHANGED <<mU, mW, mA, mR, mP, mC, likeIdCounter, issued>>
           /\ UNCHANGED <<dbUsers, dbWaterIntake, dbActivities, dbRoutes, dbPosts,
                          dbComments, dbSeq>>
           /\ DOMAIN likes' \subseteq DOMAIN likes
           /\ \A k \in DOMAIN likes' : likes'[k] = likes[k]
           /\ \A k \in DOMAIN likes \ DOMAIN likes' :
                  likes[k].userId = u /\ likes[k].postId = p
           /\ dbLikes' \subseteq dbLikes
           /\ \A row \in dbLikes \ dbLikes' : row.userId = u /\ row.postId = p
           /\ MemLikesOfPair(u, p) = {} => likes' = likes
           /\ (\A row \in dbLikes : row.userId # u \/ row.postId # p) => dbLikes' = dbLikes
    ]_vars

\* removeLike was called while both stores held Likes and none had ever been
\* removed from MemStorage, this call included: it found no Like of its pair
C4_Witness ==
    /\ op.name = "removeLike"
    /\ Len(issued.like) = Cardinality(DOMAIN likes)
    /\ Cardinality(DOMAIN likes) >= 2
    /\ Cardinality(dbLikes) >= 2
    /\ Cardinality(dbLikes) = dbSeq.like

DbLikesOfPair(userId, postId) ==
    {row \in dbLikes : row.userId = userId /\ row.postId = postId}

\* C3: DatabaseStorage.addLike is a read followed by a separate conditional insert:
\* the read changes nothing, and a call whose read returned no row inserts a new
\* row for its pair when it resumes, whatever other calls have inserted since.
C3_AddLikeIsReadThenInsert ==
    [][\A c \in Calls :
        /\ (pc[c] = "idle" /\ pc'[c] = "selected") =>
              /\ UNCHANGED dbVars
              /\ Range(seen'[c].existingLikes)
                    = DbLikesOfPair(seen'[c].like.userId, seen'[c].like.postId)
        /\ (pc[c] = "selected" /\ pc'[c] = "done" /\ seen[c].existingLikes = <<>>
               /\ seen[c].like.userId \in Ids(dbUsers)
               /\ seen[c].like.postId \in Ids(dbPosts)) =>
              /\ seen'[c].ret.kind = "ok"
              /\ seen'[c].ret.val.userId = seen[c].like.userId
              /\ seen'[c].ret.val.postId = seen[c].like.postId
              /\ seen'[c].ret.val \notin dbLikes
              /\ dbLikes' = dbLikes \cup {seen'[c].ret.val}
    ]_vars

\* both calls read no row for the same pair, both inserted: two Likes of one pair
C3_Witness ==
    /\ \A c \in Calls : pc[c] = "done" /\ seen[c].existingLikes = <<>>
                          /\ seen[c].ret.kind = "ok"
    /\ seen["c1"].like = seen["c2"].like
    /\ seen["c1"].ret.val.id # seen["c2"].ret.val.id
    /\ Cardinality(DbLikesOfPair(seen["c1"].like.userId, seen["c1"].like.postId)) = 2

\* the records of a calendar day: day d runs from d * DayMs to (d + 1) * DayMs - 1
OfUserAndDay(records, userId, date) ==
    {r \in records :
        /\ r.userId = userId
        /\ (date \div DayMs) * DayMs <= r.timestamp
        /\ r.timestamp <= ((date \div DayMs) + 1) * DayMs - 1}

\* C5: getWaterIntakeByUserIdAndDate(userId, date) returns exactly the records of
\* that user with a timestamp from 00:00:00.000 to 23:59:59.999 of date's day,
\* both inclusive, each once, and no other record (both stores).
C5_DayWindow ==
    op.name = "getWaterIntakeByUserIdAndDate" =>
        /\ memRet.kind = "ok" /\ dbRet.kind = "ok"
        /\ Range(memRet.val) = OfUserAndDay(Range(Values(waterIntakes)), op.arg[1], op.arg[2])
        /\ Len(memRet.val) = Cardinality(Range(memRet.val))
        /\ Range(dbRet.val) = OfUserAndDay(dbWaterIntake, op.arg[1], op.arg[2])
        /\ Len(dbRet.val) = Cardinality(Range(dbRet.val))

\* one user has a record at 23:59:59.999 of day 0 and one at 00:00:00.000 of day 1,
\* and the query for day 0 returned only the first (both stores)
C5_Witness ==
    /\ op.name = "getWaterIntakeByUserIdAndDate"
    /\ op.arg[2] \div DayMs = 0
    /\ \E k1, k2 \in DOMAIN waterIntakes :
          /\ waterIntakes[k1].userId = op.arg[1] /\ waterIntakes[k2].userId = op.arg[1]
          /\ waterIntakes[k1].timestamp = DayMs - 1
          /\ waterIntakes[k2].timestamp = DayMs
          /\ memRet.val = <<waterIntakes[k1]>>
    /\ Len(dbRet.val) = 1 /\ dbRet.val[1].timestamp = DayMs - 1
    /\ Cardinality(dbWaterIntake) = 2

\* page is the window [offset, offset + limit) of a ranking of all by descending
\* timestamp: it has the window's length, repeats no record, is itself ranked,
\* and the records left out split into offset records ranked before it (none
\* older than any record of the page) and the rest ranked after it (none newer)
IsPage(page, all, limit, offset) ==
    /\ Len(page) = Max(0, Least(limit, Cardinality(all) - offset))
    /\ Range(page) \subseteq all
    /\ Cardinality(Range(page)) = Len(page)
    /\ \A i, j \in DOMAIN page : i < j => page[i].timestamp >= page[j].timestamp
    /\ \E before \in SUBSET (all \ Range(page)) :
          /\ Cardinality(before) = Least(offset, Cardinality(all))
          /\ \A b \in before, r \in Range(page) : b.timestamp >= r.timestamp
          /\ \A a \in (all \ Range(page)) \ before, r \in Range(page) :
                a.timestamp <= r.timestamp
          /\ \A b \in before, a \in (all \ Range(page)) \ before :
                b.timestamp >= a.timestamp

\* C6: getPosts(limit, offset) returns the posts at positions offset to
\* offset + limit - 1 of all posts ranked newest first, cut at the end of the
\* list, and nothing when offset is past the end (both stores).
C6_PageOfPosts ==
    op.name = "getPosts" =>
        /\ memRet.kind = "ok" /\ dbRet.kind = "ok"
        /\ IsPage(memRet.val, Range(Values(posts)), op.arg[1], op.arg[2])
        /\ IsPage(dbRet.val, dbPosts, op.arg[1], op.arg[2])

\* getPosts(1, 1) over three posts, the two newest of the same millisecond: a
\* window with a post ranked before it and a post ranked after it
C6_Witness ==
    /\ op.name = "getPosts" /\ op.arg = <<1, 1>>
    /\ Cardinality(DOMAIN posts) = 3 /\ Cardinality(dbPosts) = 3
    /\ Cardinality({posts[k].timestamp : k \in DOMAIN posts}) = 2
    /\ Len(memRet.val) = 1 /\ Len(dbRet.val) = 1
    /\ \A k \in DOMAIN posts : posts[k].timestamp >= posts[1].timestamp
    /\ memRet.val[1].timestamp > posts[1].timestamp

\* list holds every record of matching exactly once, oldest first (sign 1) or
\* newest first (sign -1)
IsListing(ret, matching, sign) ==
    /\ ret.kind = "ok"
    /\ Range(ret.val) = matching
    /\ Len(ret.val) = Cardinality(matching)
    /\ \A i, j \in DOMAIN ret.val :
          i < j => sign * (ret.val[i].timestamp - ret.val[j].timestamp) <= 0

MemRecords(map) == {map[k] : k \in DOMAIN map}

\* C7: getWaterIntakeByUserIdAndDate and getCommentsByPostId list oldest first;
\* getWaterIntakeByUserId, getActivitiesByUserId, getRecentActivities, getPosts and
\* getPostsByUserId list newest first; each lists every matching record once (the
\* two windowed queries: the records of their window), in both stores.
C7_ListsOrdered ==
    /\ op.name = "getWaterIntakeByUserIdAndDate" =>
          /\ IsListing(memRet, OfUserAndDay(MemRecords(waterIntakes), op.arg[1], op.arg[2]), 1)
          /\ IsListing(dbRet, OfUserAndDay(dbWaterIntake, op.arg[1], op.arg[2]), 1)
    /\ op.name = "getCommentsByPostId" =>
          /\ IsListing(memRet, {r \in MemRecords(comments) : r.postId = op.arg}, 1)
          /\ IsListing(dbRet, {r \in dbComments : r.postId = op.arg}, 1)
    /\ op.name = "getWaterIntakeByUserId" =>
          /\ IsListing(memRet, {r \in MemRecords(waterIntakes) : r.userId = op.arg}, -1)
          /\ IsListing(dbRet, {r \in dbWaterIntake : r.userId = op.arg}, -1)
    /\ op.name = "getActivitiesByUserId" =>
          /\ IsListing(memRet, {r \in MemRecords(activities) : r.userId = op.arg}, -1)
          /\ IsListing(dbRet, {r \in dbActivities : r.userId = op.arg}, -1)
    /\ op.name = "getPostsByUserId" =>
          /\ IsListing(memRet, {r \in MemRecords(posts) : r.userId = op.arg}, -1)
          /\ IsListing(dbRet, {r \in dbPosts : r.userId = op.arg}, -1)
    /\ op.name = "getRecentActivities" =>
          /\ memRet.kind = "ok" /\ dbRet.kind = "ok"
          /\ IsPage(memRet.val, {r \in MemRecords(activities) : r.isPublic = <<TRUE>>},
                    op.arg, 0)
          /\ IsPage(dbRet.val, {r \in dbActivities : r.isPublic = <<TRUE>>}, op.arg, 0)
    /\ op.name = "getPosts" =>
          /\ memRet.kind = "ok" /\ dbRet.kind = "ok"
          /\ IsPage(memRet.val, MemRecords(posts), op.arg[1], op.arg[2])
          /\ IsPage(dbRet.val, dbPosts, op.arg[1], op.arg[2])

\* getCommentsByPostId listed two comments of different times
C7_Witness ==
    /\ op.name = "getCommentsByPostId"
    /\ Len(memRet.val) = 2 /\ Len(dbRet.val) = 2
    /\ memRet.val[1].timestamp < memRet.val[2].timestamp
    /\ dbRet.val[1].timestamp < dbRet.val[2].timestamp

\* C8: updateUser(id, partial) on an existing user sets the fields partial names
\* and keeps every other field of that user, keeps every other user, and creates
\* none; for an id of no user it returns absent and changes nothing (both stores;
\* DatabaseStorage changes nothing either when it refuses the update).
C8_UpdateUserFrame ==
    [][op'.name = "updateUser" =>
        LET id == op'.arg[1]
            data == op'.arg[2]
            hit == {row \in dbUsers : row.id = id}
        IN /\ UNCHANGED <<userIdCounter, issued, mW, mA, mR, mP, mL, mC>>
           /\ UNCHANGED <<dbWaterIntake, dbActivities, dbRoutes, dbPosts, dbLikes,
                          dbComments, dbSeq>>
           /\ DOMAIN users' = DOMAIN users
           /\ \A k \in DOMAIN users \ {id} : users'[k] = users[k]
           /\ IF id \in DOMAIN users
              THEN /\ memRet'.kind = "ok" /\ memRet'.val = users'[id]
                   /\ DOMAIN users'[id] = DOMAIN users[id]
                   /\ \A f \in DOMAIN users[id] \ DOMAIN data :
                          users'[id][f] = users[id][f]
                   /\ \A f \in DOMAIN data : users'[id][f] = data[f]
              ELSE memRet'.kind = "absent" /\ users' = users
           /\ dbUsers \ hit \subseteq dbUsers'
           /\ Cardinality(dbUsers') = Cardinality(dbUsers)
           /\ IF hit = {}
              THEN dbRet'.kind = "absent" /\ dbUsers' = dbUsers
              ELSE /\ dbRet'.kind \in {"ok", "error"}
                   /\ dbRet'.kind = "error" => dbUsers' = dbUsers
                   /\ dbRet'.kind = "ok" => dbRet'.val \in dbUsers'
                   /\ \A row \in dbUsers' \ (dbUsers \ hit) : \E old \in hit :
                          \A f \in UserColumns \ DOMAIN data : row[f] = old[f]
    ]_vars

\* updateUser(id, {email}) on a user whose picture and goal had been set before:
\* both stores return the user with the new email, the picture and the goal kept
C8_Witness ==
    /\ op.name = "updateUser" /\ op.arg[2] = [email |-> "new@example.com"]
    /\ memRet.kind = "ok" /\ dbRet.kind = "ok"
    /\ memRet.val.email = "new@example.com" /\ dbRet.val.email = "new@example.com"
    /\ memRet.val.dailyWaterGoal = <<3000>> /\ dbRet.val.dailyWaterGoal = <<3000>>
    /\ memRet.val.profilePicture = <<"pic.png">>
    /\ dbRet.val.profilePicture = <<"pic.png">>

\* C10: createUser with a username that a stored user already has succeeds in
\* MemStorage, which then holds two users with that username and different ids,
\* and fails in DatabaseStorage, which stores no second user; with a new username
\* it succeeds in both.
C10_DuplicateUsername ==
    [][op'.name = "createUser" =>
        /\ memRet'.kind = "ok"
        /\ memRet'.val.id \notin DOMAIN users
        /\ memRet'.val.username = op'.arg.username
        /\ DOMAIN users' = DOMAIN users \cup {memRet'.val.id}
        /\ users'[memRet'.val.id] = memRet'.val
        /\ \A k \in DOMAIN users : users'[k] = users[k]
        /\ IF \E row \in dbUsers : row.username = op'.arg.username
           THEN dbRet'.kind = "error" /\ dbUsers' = dbUsers
           ELSE /\ dbRet'.kind = "ok"
                /\ dbRet'.val.username = op'.arg.username
                /\ dbRet'.val \notin dbUsers
                /\ dbUsers' = dbUsers \cup {dbRet'.val}
    ]_vars

\* the second createUser("alice"): MemStorage holds two users named alice,
\* DatabaseStorage refused the call and holds one
C10_Witness ==
    /\ op.name = "createUser" /\ op.arg.username = "alice"
    /\ memRet.kind = "ok" /\ dbRet.kind = "error"
    /\ Cardinality({k \in DOMAIN users : users[k].username = "alice"}) = 2
    /\ Cardinality({row \in dbUsers : row.username = "alice"}) = 1

\* the operations that return a list of records
ListOps == {"getWaterIntakeByUserId", "getWaterIntakeByUserIdAndDate",
            "getActivitiesByUserId", "getRecentActivities",
            "getPublicActivitiesNearby", "getPosts", "getPostsByUserId",
            "getLikesByPostId", "getCommentsByPostId"}

\* a record without its assigned identifier and its server-assigned timestamp
Forget(r) == [f \in DOMAIN r \ {"id", "timestamp"} |-> r[f]]

\* two results of the operation name are the same presence, absence or refusal,
\* and the same records in the same order up to identifiers and timestamps
SameUpTo(a, b, name) ==
    /\ a.kind = b.kind
    /\ a.kind = "ok" =>
          IF name \in ListOps
          THEN /\ Len(a.val) = Len(b.val)
               /\ \A i \in DOMAIN a.val : Forget(a.val[i]) = Forget(b.val[i])
          ELSE Forget(a.val) = Forget(b.val)

SameRecords ==
    /\ MemRecords(users) = dbUsers /\ userIdCounter = dbSeq.user + 1
    /\ MemRecords(waterIntakes) = dbWaterIntake
    /\ waterIntakeIdCounter = dbSeq.waterIntake + 1
    /\ MemRecords(activities) = dbActivities /\ activityIdCounter = dbSeq.activity + 1
    /\ MemRecords(routes) = dbRoutes /\ routeIdCounter = dbSeq.route + 1
    /\ MemRecords(posts) = dbPosts /\ postIdCounter = dbSeq.post + 1
    /\ MemRecords(likes) = dbLikes /\ likeIdCounter = dbSeq.like + 1
    /\ MemRecords(comments) = dbComments /\ commentIdCounter = dbSeq.comment + 1

DistinctTimestamps(records) ==
    \A r1, r2 \in records : r1.timestamp = r2.timestamp => r1 = r2

\* the operation o names only users, posts and activities that exist, gives no
\* user the username of another, and lists no two records whose order the
\* query leaves open
Conforms(o) ==
    LET a == o.arg
    IN CASE o.name = "createUser" ->
              \A k \in DOMAIN users : users[k].username # a.username
         [] o.name = "updateUser" ->
              "username" \in DOMAIN a[2] =>
                 \A k \in DOMAIN users \ {a[1]} : users[k].username # a[2].username
         [] o.name \in {"addWaterIntake", "createActivity"} ->
              a.userId \in DOMAIN users
         [] o.name = "saveRoute" -> a.activityId \in DOMAIN activities
         [] o.name = "createPost" ->
              /\ a.userId \in DOMAIN users
              /\ a.activityId # Null => a.activityId[1] \in DOMAIN activities
         [] o.name \in {"addLike", "addComment"} ->
              a.userId \in DOMAIN users /\ a.postId \in DOMAIN posts
         [] o.name = "getRouteByActivityId" ->
              Cardinality({k \in DOMAIN routes : routes[k].activityId = a}) <= 1
         [] o.name = "getLikesByPostId" ->
              Cardinality({k \in DOMAIN likes : likes[k].postId = a}) <= 1
         [] o.name \in {"getWaterIntakeByUserId", "getWaterIntakeByUserIdAndDate"} ->
              DistinctTimestamps(MemRecords(waterIntakes))
         [] o.name \in {"getActivitiesByUserId", "getRecentActivities",
                        "getPublicActivitiesNearby"} ->
              DistinctTimestamps(MemRecords(activities))
         [] o.name \in {"getPosts", "getPostsByUserId"} ->
              DistinctTimestamps(MemRecords(posts))
         [] o.name = "getCommentsByPostId" ->
              DistinctTimestamps(MemRecords(comments))
         [] OTHER -> TRUE

UserHandlers == {"POST /api/register", "POST /api/login", "GET /api/users/:userId",
                 "PATCH /api/users/:userId"}

\* C11: a response of POST /api/register, POST /api/login, GET /api/users/:userId
\* or PATCH /api/users/:userId carries a message or a user without the password
\* field: every other field of the User the store operation returned, and that
\* User has its password field.
C11_NoPasswordInResponse ==
    op.name \in UserHandlers =>
        /\ res.is \in {"user", "message"}
        /\ res.code \in {200, 201} <=> res.is = "user"
        /\ res.is = "user" =>
              /\ "password" \notin DOMAIN res.json
              /\ Ret(res.store).kind = "ok"
              /\ "password" \in DOMAIN Ret(res.store).val
              /\ DOMAIN res.json = DOMAIN Ret(res.store).val \ {"password"}
              /\ \A f \in DOMAIN res.json : res.json[f] = Ret(res.store).val[f]

\* PATCH /api/users/1 has changed alice's password in the database and answered
\* with alice
C11_Witness ==
    /\ op.name = "PATCH /api/users/:userId" /\ res.store = "db"
    /\ res.code = 200 /\ res.is = "user"
    /\ dbRet.val.password = "changed"
    /\ res.json.username = "alice"

PublicOf(records) == {r \in records : r.isPublic = Some(TRUE)}

\* C12: getPublicActivitiesNearby gives the same for every (lat, lng, radiusKm),
\* which is what getRecentActivities(10) gives; what a call returns is the up to
\* 10 most recent activities with isPublic true, newest first, and no activity
\* with isPublic false (both stores; where timestamps are equal the database
\* may return either order, whatever the parameters).
C12_NearbyIgnoresParameters ==
    /\ \A t \in NearbyTriples :
          /\ MemGetPublicActivitiesNearby(t[1], t[2], t[3]) = MemGetRecentActivities(10)
          /\ DbGetPublicActivitiesNearby(t[1], t[2], t[3]) = DbGetRecentActivities(10)
    /\ op.name = "getPublicActivitiesNearby" =>
          /\ memRet.kind = "ok" /\ dbRet.kind = "ok"
          /\ IsPage(memRet.val, PublicOf(MemRecords(activities)), 10, 0)
          /\ IsPage(dbRet.val, PublicOf(dbActivities), 10, 0)
          /\ Len(memRet.val) <= 10 /\ Len(dbRet.val) <= 10

\* a call with radius 1 over eleven public activities and a private one, the two
\* oldest public ones of the same millisecond: ten are returned
C12_Witness ==
    /\ op.name = "getPublicActivitiesNearby" /\ op.arg = <<48, 11, 1>>
    /\ Cardinality(PublicOf(MemRecords(activities))) = 11
    /\ Cardinality(PublicOf(dbActivities)) = 11
    /\ Cardinality(dbActivities) = 12
    /\ \E r1, r2 \in PublicOf(dbActivities) : r1 # r2 /\ r1.timestamp = r2.timestamp
    /\ Len(memRet.val) = 10 /\ Len(dbRet.val) = 10

UsernamesUnique ==
    /\ \A k1, k2 \in DOMAIN users : users[k1].username = users[k2].username => k1 = k2
    /\ \A r1, r2 \in dbUsers : r1.username = r2.username => r1 = r2

\* C13 as stated: whatever POST /api/register requests have run, also interleaved
\* at their awaits and with either store, no two stored users have the same
\* username, and no user is created under a username that a stored user has.
C13_RegisterKeepsUsernamesUnique ==
    /\ []UsernamesUnique
    /\ [][/\ \A k \in DOMAIN users' \ DOMAIN users : \A j \in DOMAIN users :
                users[j].username # users'[k].username
          /\ \A row \in dbUsers' \ dbUsers : \A old \in dbUsers :
                old.username # row.username]_vars

KeyedById(map) == \A k \in DOMAIN map : map[k].id = k

\* C14 as stated: in MemStorage every record is stored under the key equal to
\* its id, so getUser(k), when present, returns a user with id k, and no two
\* stored users have the same id.
C14_StoredUnderOwnId ==
    /\ KeyedById(users) /\ KeyedById(waterIntakes) /\ KeyedById(activities)
    /\ KeyedById(routes) /\ KeyedById(posts) /\ KeyedById(likes)
    /\ KeyedById(comments)
    /\ \A k \in DOMAIN users : MemGetUser(k).kind = "ok" /\ MemGetUser(k).val.id = k
    /\ \A k1, k2 \in DOMAIN users : users[k1].id = users[k2].id => k1 = k2

OptionalFields == {"profilePicture", "dailyWaterGoal", "elevationGain", "weather",
                   "temperature", "isPublic", "activityId", "imagePath"}

DefaultFor(f) == CASE f = "dailyWaterGoal" -> Some(2000)
                   [] f = "isPublic" -> Some(TRUE)
                   [] OTHER -> Null

\* the created record has, in every optional field, the supplied value, or the
\* default where none was supplied
KeepsSupplied(ret, given) ==
    ret.kind = "ok" =>
        \A f \in OptionalFields \cap DOMAIN given :
            ret.val[f] = IF given[f] = Null THEN DefaultFor(f) ELSE given[f]

\* C15 as stated: createUser, createActivity and createPost put the default in an
\* optional field only when the caller left it unset; a supplied value, also 0,
\* "" or false, is stored unchanged.
C15_SuppliedValuesKept ==
    op.name \in {"createUser", "createActivity", "createPost"} =>
        /\ memRet.kind = "ok"
        /\ KeepsSupplied(memRet, op.arg)
        /\ KeepsSupplied(dbRet, op.arg)

\* C16 as stated: a GET request to /api/activities/nearby with valid lat and lng
\* is answered by the nearby handler, with the result of
\* getPublicActivitiesNearby, and not by the handler of /api/activities/:activityId.
C16_NearbyReachesItsHandler ==
    (/\ op.name \in {"GET /api/activities/:activityId", "GET /api/activities/nearby"}
     /\ op.arg.path = NearbyPath
     /\ ParseNearbyQuery(op.arg.query).kind = "ok")
    => /\ op.name = "GET /api/activities/nearby"
       /\ res.code = 200 /\ res.is = "list"
       /\ LET q == ParseNearbyQuery(op.arg.query).val
          IN Ok(res.json) \in NearbyOf(res.store, q[1], q[2], q[3])

====
